---- MODULE Spec2Model ----
(***************************************************************************)
(* PromisedDatabase (src/src/PromisedDatabase.ts): a promise-returning     *)
(* wrapper around the callback API of sqlite3.Database.                    *)
(*                                                                         *)
(* One PromisedDatabase instance is modelled together with the engine it   *)
(* talks to.  The engine (the sqlite3 package) is the environment: it owns *)
(* the connections, receives the operations the wrapper submits and later  *)
(* invokes their callbacks, with or without an error.                      *)
(***************************************************************************)
EXTENDS Integers, Sequences, FiniteSets, TLC

\* ---- bounds -------------------------------------------------------------
\* number of public calls made on the instance
MaxCalls == 2
\* number of per-row callbacks the engine delivers to one each()
MaxRows == 2
\* length of the variadic parameter list of run/get/all
MaxParams == 2

VARIABLES
    _db,        \* this._db: 0 is undefined, c > 0 is the c-th constructed sqlite3.Database
    conns,      \* engine side: state of every sqlite3.Database constructed so far
    promises,   \* every promise created so far, with the context of the call that created it
    ops         \* every operation submitted to the engine, in submission order

vars == <<_db, conns, promises, ops>>

\* ---- values -------------------------------------------------------------
\* Settlement values and errors: a tag and two integers that tell apart the
\* values of different operations and callbacks.
Val(t, a, b) == [t |-> t, a |-> a, b |-> b]

Nothing == Val("pending", 0, 0)
Undefined == Val("undefined", 0, 0)

error_dbNotOpened == Val("Error: The database is not open.", 0, 0)

TypeError_cb == Val("TypeError: cb must be a Function.", 0, 0)

\* what the language raises when cb(row) is evaluated and cb is not a function
TypeError_notCallable == Val("TypeError: cb is not a function", 0, 0)

\* the error the engine passes to callback k of operation o (k = 0: completion)
EngineError(o, k) == Val("engine error", o, k)

\* the error the row handler raises on its k-th invocation within operation o
HandlerError(o, k) == Val("handler error", o, k)

\* the `this` of the completion callback of run operation o
RunResult(o) == Val("RunResult", o, 0)

Row(o, k) == Val("row", o, k)

\* the array of the first n rows of operation o, in delivery order
Rows(o, n) == Val("rows", o, n)

Count(n) == Val("count", n, 0)

\* Bind values: a scalar, or an array of bind values.
Num(n) == [tag |-> "num", n |-> n, items |-> <<>>]

Arr(s) == [tag |-> "arr", n |-> 0, items |-> s]

NoParam == [tag |-> "none", n |-> 0, items |-> <<>>]

ParamVals == {Num(1), Arr(<<Num(2)>>)}

\* the variadic parameter lists of at most MaxParams bind values
ParamLists == UNION {[1..n -> ParamVals] : n \in 0..MaxParams}

\* the parameter lists of the calls of the full specification
FewParamLists == {<<>>, <<Num(1)>>}

SqlTexts == {"SELECT 1"}

\* ---- promises -----------------------------------------------------------
\* A promise created by `new Promise(executor)`, with the call it belongs to:
\* kind is the method, via the promise of the shortcut that made the call (0:
\* called by the user), dbAtCall the value of this._db when the call was made,
\* connState the state of that connection then, opensBefore the number of
\* earlier calls of open, opened whether one of them had already succeeded,
\* cbFn whether the row handler passed to each is a function, flag the
\* ifNotExists / ifExists argument of a shortcut ({}: not supplied), awaits
\* the promise an async method is suspended on.
NewPromise(kind, via) ==
    [state |-> "pending", value |-> Nothing, kind |-> kind, via |-> via,
     dbAtCall |-> _db, connState |-> IF _db = 0 THEN "none" ELSE conns[_db],
     opensBefore |-> Len(conns),
     opened |-> (\E c \in 1..Len(conns) : conns[c] \in {"open", "closed"}),
     cbFn |-> TRUE, flag |-> {}, awaits |-> 0]

\* resolve(v) and reject(e) of promise i: the first call settles the promise,
\* later calls are ignored.
resolve(P, i, v) ==
    IF P[i].state = "pending"
    THEN [P EXCEPT ![i].state = "resolved", ![i].value = v]
    ELSE P

\* reject without the settle-once rule: a later rejection overwrites the outcome
rejectOverwrites(P, i, e) ==
    [P EXCEPT ![i].state = "rejected", ![i].value = e]

reject(P, i, e) ==
    IF P[i].state = "pending"
    THEN [P EXCEPT ![i].state = "rejected", ![i].value = e]
    ELSE P

\* number of calls made by the user (calls made by a shortcut are not counted)
NumCalls == Cardinality({i \in 1..Len(promises) : promises[i].via = 0})

CanCall == NumCalls < MaxCalls

\* ---- engine operations --------------------------------------------------
\* An operation submitted to the engine: the method, the connection it was
\* called on, the arguments received, the promise its callbacks settle.
\* args is the parameter list as the caller supplied it; cbFn whether the row
\* handler is a function; events what happened in each per-row callback so far
\* ("err": the engine passed an error, "ok": the handler returned, "throw":
\* calling the handler raised); invoked the rows the handler was invoked
\* with, in order; done whether the completion callback has run, and result
\* what it carried.
NewOp(kind, conn, sql, param, args, cbFn, i) ==
    [kind |-> kind, conn |-> conn, sql |-> sql, param |-> param, args |-> args,
     cbFn |-> cbFn, promise |-> i, events |-> <<>>, invoked |-> <<>>,
     done |-> FALSE, result |-> Nothing]

\* The engine runs the operations queued on a connection once the connection
\* has finished opening.
EngineReady(o) ==
    /\ ~ops[o].done
    /\ conns[ops[o].conn] # "opening"

\* ---- open / close -------------------------------------------------------
\* open that closes the connection it replaces
OpenClosesPrevious ==
    /\ CanCall
    /\ LET c == Len(conns) + 1
           i == Len(promises) + 1
           O == IF _db = 0 THEN ops
                ELSE Append(ops, NewOp("close", _db, "", NoParam, <<>>, FALSE, i))
       IN /\ conns' = Append(conns, "opening")
          /\ _db' = c
          /\ promises' = Append(promises, NewPromise("open", 0))
          /\ ops' = Append(O, NewOp("open", c, "", NoParam, <<>>, FALSE, i))

Open ==
    /\ CanCall
    /\ LET c == Len(conns) + 1
           i == Len(promises) + 1
       IN /\ conns' = Append(conns, "opening")
          /\ _db' = c
          /\ promises' = Append(promises, NewPromise("open", 0))
          /\ ops' = Append(ops, NewOp("open", c, "", NoParam, <<>>, FALSE, i))

\* the open callback that forgets a connection that failed to open
OpenCallbackClearsOnError(o, err) ==
    /\ ops[o].kind = "open"
    /\ ~ops[o].done
    /\ conns' = [conns EXCEPT ![ops[o].conn] = IF err THEN "failed" ELSE "open"]
    /\ ops' = [ops EXCEPT ![o].done = TRUE,
                          ![o].result = IF err THEN EngineError(o, 0) ELSE Undefined]
    /\ promises' = IF err THEN reject(promises, ops[o].promise, EngineError(o, 0))
                          ELSE resolve(promises, ops[o].promise, Undefined)
    /\ _db' = IF err /\ _db = ops[o].conn THEN 0 ELSE _db

OpenCallback(o, err) ==
    /\ ops[o].kind = "open"
    /\ ~ops[o].done
    /\ conns' = [conns EXCEPT ![ops[o].conn] = IF err THEN "failed" ELSE "open"]
    /\ ops' = [ops EXCEPT ![o].done = TRUE,
                          ![o].result = IF err THEN EngineError(o, 0) ELSE Undefined]
    /\ promises' = IF err THEN reject(promises, ops[o].promise, EngineError(o, 0))
                          ELSE resolve(promises, ops[o].promise, Undefined)
    /\ UNCHANGED _db

\* close with the guard of the other methods
CloseRejectsUnopened ==
    /\ CanCall
    /\ LET i == Len(promises) + 1
           P == Append(promises, NewPromise("close", 0))
       IN IF _db = 0
          THEN /\ promises' = reject(P, i, error_dbNotOpened)
               /\ UNCHANGED ops
          ELSE /\ promises' = P
               /\ ops' = Append(ops, NewOp("close", _db, "", NoParam, <<>>, FALSE, i))
    /\ UNCHANGED <<_db, conns>>

Close ==
    /\ CanCall
    /\ LET i == Len(promises) + 1
           P == Append(promises, NewPromise("close", 0))
       IN IF _db = 0
          THEN /\ promises' = resolve(P, i, Undefined)
               /\ UNCHANGED ops
          ELSE /\ promises' = P
               /\ ops' = Append(ops, NewOp("close", _db, "", NoParam, <<>>, FALSE, i))
    /\ UNCHANGED <<_db, conns>>

\* the close callback that forgets the connection once it is closed
CloseCallbackClearsDb(o, err) ==
    /\ ops[o].kind = "close"
    /\ EngineReady(o)
    /\ (conns[ops[o].conn] # "open" => err)
    /\ conns' = IF err THEN conns ELSE [conns EXCEPT ![ops[o].conn] = "closed"]
    /\ ops' = [ops EXCEPT ![o].done = TRUE,
                          ![o].result = IF err THEN EngineError(o, 0) ELSE Undefined]
    /\ promises' = IF err THEN reject(promises, ops[o].promise, EngineError(o, 0))
                          ELSE resolve(promises, ops[o].promise, Undefined)
    /\ _db' = IF err THEN _db ELSE 0

\* The engine closes a connection only if it is open; otherwise it reports an error.
CloseCallback(o, err) ==
    /\ ops[o].kind = "close"
    /\ EngineReady(o)
    /\ (conns[ops[o].conn] # "open" => err)
    /\ conns' = IF err THEN conns ELSE [conns EXCEPT ![ops[o].conn] = "closed"]
    /\ ops' = [ops EXCEPT ![o].done = TRUE,
                          ![o].result = IF err THEN EngineError(o, 0) ELSE Undefined]
    /\ promises' = IF err THEN reject(promises, ops[o].promise, EngineError(o, 0))
                          ELSE resolve(promises, ops[o].promise, Undefined)
    /\ UNCHANGED _db

\* ---- run / get / all --------------------------------------------------
\* the parameter list is always passed as an array
pAlwaysArray(params) == Arr(params)

\* const p = params.length === 1 ? params[0] : params
p(params) == IF Len(params) = 1 THEN params[1] ELSE Arr(params)

\* the guard settles the promise the way close does
QueryResolvesUnopened(kind, P, O, sql, params, via) ==
    LET i == Len(P) + 1
        P1 == Append(P, NewPromise(kind, via))
    IN IF _db = 0
       THEN [P |-> resolve(P1, i, Undefined), O |-> O]
       ELSE [P |-> P1, O |-> Append(O, NewOp(kind, _db, sql, p(params), params, FALSE, i))]

\* the engine's method is called ahead of the operations already submitted
QuerySubmitsFirst(kind, P, O, sql, params, via) ==
    LET i == Len(P) + 1
        P1 == Append(P, NewPromise(kind, via))
    IN IF _db = 0
       THEN [P |-> reject(P1, i, error_dbNotOpened), O |-> O]
       ELSE [P |-> P1, O |-> <<NewOp(kind, _db, sql, p(params), params, FALSE, i)>> \o O]

\* The body shared by run, get and all, applied to promises P and operations
\* O: the guard on this._db, then the call of the engine's method.
Query(kind, P, O, sql, params, via) ==
    LET i == Len(P) + 1
        P1 == Append(P, NewPromise(kind, via))
    IN IF _db = 0
       THEN [P |-> reject(P1, i, error_dbNotOpened), O |-> O]
       ELSE [P |-> P1, O |-> Append(O, NewOp(kind, _db, sql, p(params), params, FALSE, i))]

Run(sql, params) ==
    /\ CanCall
    /\ LET r == Query("run", promises, ops, sql, params, 0)
       IN promises' = r.P /\ ops' = r.O
    /\ UNCHANGED <<_db, conns>>

Get(sql, params) ==
    /\ CanCall
    /\ LET r == Query("get", promises, ops, sql, params, 0)
       IN promises' = r.P /\ ops' = r.O
    /\ UNCHANGED <<_db, conns>>

All(sql, params) ==
    /\ CanCall
    /\ LET r == Query("all", promises, ops, sql, params, 0)
       IN promises' = r.P /\ ops' = r.O
    /\ UNCHANGED <<_db, conns>>

\* the completion callback that rejects with a new error in place of the engine's
CompleteWrapsError(o, err, v) ==
    /\ EngineReady(o)
    /\ ops' = [ops EXCEPT ![o].done = TRUE,
                          ![o].result = IF err THEN EngineError(o, 0) ELSE v]
    /\ promises' = IF err THEN reject(promises, ops[o].promise, Val("Error", 0, 0))
                          ELSE resolve(promises, ops[o].promise, v)
    /\ UNCHANGED <<_db, conns>>

\* The completion callback of an operation with a single callback: the
\* engine passes an error, or the value v.
Complete(o, err, v) ==
    /\ EngineReady(o)
    /\ ops' = [ops EXCEPT ![o].done = TRUE,
                          ![o].result = IF err THEN EngineError(o, 0) ELSE v]
    /\ promises' = IF err THEN reject(promises, ops[o].promise, EngineError(o, 0))
                          ELSE resolve(promises, ops[o].promise, v)
    /\ UNCHANGED <<_db, conns>>

RunCallback(o, err) ==
    /\ ops[o].kind = "run"
    /\ Complete(o, err, RunResult(o))

\* found: whether the engine passes a row (the first match) or undefined
GetCallback(o, err, found) ==
    /\ ops[o].kind = "get"
    /\ (err => ~found)
    /\ Complete(o, err, IF found THEN Row(o, 1) ELSE Undefined)

AllCallback(o, err, n) ==
    /\ ops[o].kind = "all"
    /\ (err => n = 0)
    /\ Complete(o, err, Rows(o, n))

\* ---- each ---------------------------------------------------------------
\* each with the connection guard evaluated before the handler guard
EachGuardsSwapped(sql, params, cbFn) ==
    /\ CanCall
    /\ LET i == Len(promises) + 1
           P1 == Append(promises, [NewPromise("each", 0) EXCEPT !.cbFn = cbFn])
           P2 == IF _db = 0 THEN reject(P1, i, error_dbNotOpened) ELSE P1
           P3 == IF ~cbFn THEN reject(P2, i, TypeError_cb) ELSE P2
       IN IF _db = 0
          THEN /\ promises' = P3
               /\ UNCHANGED ops
          ELSE /\ promises' = P3
               /\ ops' = Append(ops, NewOp("each", _db, sql, params, <<>>, cbFn, i))
    /\ UNCHANGED <<_db, conns>>

Each(sql, params, cbFn) ==
    /\ CanCall
    /\ LET i == Len(promises) + 1
           P1 == Append(promises, [NewPromise("each", 0) EXCEPT !.cbFn = cbFn])
           P2 == IF ~cbFn THEN reject(P1, i, TypeError_cb) ELSE P1
       IN IF _db = 0
          THEN /\ promises' = reject(P2, i, error_dbNotOpened)
               /\ UNCHANGED ops
          ELSE /\ promises' = P2
               /\ ops' = Append(ops, NewOp("each", _db, sql, params, <<>>, cbFn, i))
    /\ UNCHANGED <<_db, conns>>

\* the per-row callback without try/catch: what the handler raises leaves the
\* callback and reaches the engine ("escaped")
EachRowCallbackNoCatch(o, err, throws) ==
    /\ ops[o].kind = "each"
    /\ EngineReady(o)
    /\ Len(ops[o].events) < MaxRows
    /\ (throws => ~err /\ ops[o].cbFn)
    /\ LET k == Len(ops[o].events) + 1
           i == ops[o].promise
       IN IF err
          THEN /\ promises' = reject(promises, i, EngineError(o, k))
               /\ ops' = [ops EXCEPT ![o].events = Append(@, "err")]
          ELSE IF ~ops[o].cbFn
          THEN /\ promises' = promises
               /\ ops' = [ops EXCEPT ![o].events = Append(@, "escaped")]
          ELSE /\ promises' = promises
               /\ ops' = [ops EXCEPT ![o].events = Append(@, IF throws THEN "escaped" ELSE "ok"),
                                     ![o].invoked = Append(@, k)]
    /\ UNCHANGED <<_db, conns>>

\* the per-row callback without the try/catch that rejects: what the handler
\* raises is dropped
EachRowCallbackDropsThrow(o, err, throws) ==
    /\ ops[o].kind = "each"
    /\ EngineReady(o)
    /\ Len(ops[o].events) < MaxRows
    /\ (throws => ~err /\ ops[o].cbFn)
    /\ LET k == Len(ops[o].events) + 1
           i == ops[o].promise
       IN IF err
          THEN /\ promises' = reject(promises, i, EngineError(o, k))
               /\ ops' = [ops EXCEPT ![o].events = Append(@, "err")]
          ELSE IF ~ops[o].cbFn
          THEN /\ promises' = promises
               /\ ops' = [ops EXCEPT ![o].events = Append(@, "throw")]
          ELSE /\ promises' = promises
               /\ ops' = [ops EXCEPT ![o].events = Append(@, IF throws THEN "throw" ELSE "ok"),
                                     ![o].invoked = Append(@, k)]
    /\ UNCHANGED <<_db, conns>>

\* the per-row callback that passes only the rows after the first to the handler
EachRowCallbackSkipsFirst(o, err, throws) ==
    /\ ops[o].kind = "each"
    /\ EngineReady(o)
    /\ Len(ops[o].events) < MaxRows
    /\ (throws => ~err /\ ops[o].cbFn /\ Len(ops[o].events) > 0)
    /\ LET k == Len(ops[o].events) + 1
           i == ops[o].promise
       IN IF err
          THEN /\ promises' = reject(promises, i, EngineError(o, k))
               /\ ops' = [ops EXCEPT ![o].events = Append(@, "err")]
          ELSE IF ~ops[o].cbFn
          THEN /\ promises' = reject(promises, i, TypeError_notCallable)
               /\ ops' = [ops EXCEPT ![o].events = Append(@, "throw")]
          ELSE /\ promises' = IF throws
                              THEN reject(promises, i, HandlerError(o, Len(ops[o].invoked) + 1))
                              ELSE promises
               /\ ops' = [ops EXCEPT ![o].events = Append(@, IF throws THEN "throw" ELSE "ok"),
                                     ![o].invoked = IF k = 1 THEN @ ELSE Append(@, k)]
    /\ UNCHANGED <<_db, conns>>

\* The per-row callback of each: the engine passes an error or the next row;
\* throws is whether the row handler raises on this invocation.
EachRowCallback(o, err, throws) ==
    /\ ops[o].kind = "each"
    /\ EngineReady(o)
    /\ Len(ops[o].events) < MaxRows
    /\ (throws => ~err /\ ops[o].cbFn)
    /\ LET k == Len(ops[o].events) + 1
           i == ops[o].promise
       IN IF err
          THEN /\ promises' = reject(promises, i, EngineError(o, k))
               /\ ops' = [ops EXCEPT ![o].events = Append(@, "err")]
          ELSE IF ~ops[o].cbFn
          THEN /\ promises' = reject(promises, i, TypeError_notCallable)
               /\ ops' = [ops EXCEPT ![o].events = Append(@, "throw")]
          ELSE /\ promises' = IF throws
                              THEN reject(promises, i, HandlerError(o, Len(ops[o].invoked) + 1))
                              ELSE promises
               /\ ops' = [ops EXCEPT ![o].events = Append(@, IF throws THEN "throw" ELSE "ok"),
                                     ![o].invoked = Append(@, k)]
    /\ UNCHANGED <<_db, conns>>

\* each without a use of its completion callback: the engine completes the
\* operation and the promise is left as the per-row callbacks left it
EachCompleteCallbackUnused(o, err, count) ==
    /\ ops[o].kind = "each"
    /\ (err => count = 0)
    /\ EngineReady(o)
    /\ ops' = [ops EXCEPT ![o].done = TRUE,
                          ![o].result = IF err THEN EngineError(o, 0) ELSE Count(count)]
    /\ UNCHANGED <<_db, conns, promises>>

\* The completion callback of each: the engine passes an error, or the number
\* of rows it retrieved (the rows it delivered, or 0).
EachCompleteCallback(o, err, count) ==
    /\ ops[o].kind = "each"
    /\ (err => count = 0)
    /\ Complete(o, err, Count(count))

\* ---- exec ---------------------------------------------------------------
Exec(sql) ==
    /\ CanCall
    /\ LET i == Len(promises) + 1
           P1 == Append(promises, NewPromise("exec", 0))
       IN IF _db = 0
          THEN /\ promises' = reject(P1, i, error_dbNotOpened)
               /\ UNCHANGED ops
          ELSE /\ promises' = P1
               /\ ops' = Append(ops, NewOp("exec", _db, sql, NoParam, <<>>, FALSE, i))
    /\ UNCHANGED <<_db, conns>>

ExecCallback(o, err) ==
    /\ ops[o].kind = "exec"
    /\ Complete(o, err, Undefined)

\* ---- shortcut methods ---------------------------------------------------
RECURSIVE join(_, _)
\* cols.join(sep)
join(cols, sep) ==
    IF Len(cols) = 0 THEN ""
    ELSE IF Len(cols) = 1 THEN cols[1]
    ELSE cols[1] \o sep \o join(Tail(cols), sep)

\* the statement without the blank that the empty clause leaves behind
createTableSqlSingleBlank(tableName, ifNotExists, cols) ==
    LET ifNotExistsClause == IF ifNotExists THEN "IF NOT EXISTS " ELSE ""
    IN "CREATE TABLE " \o ifNotExistsClause \o tableName
           \o " (" \o join(cols, ",") \o ")"

createTableSql(tableName, ifNotExists, cols) ==
    LET ifNotExistsClause == IF ifNotExists THEN "IF NOT EXISTS" ELSE ""
    IN "CREATE TABLE " \o ifNotExistsClause \o " " \o tableName
           \o " (" \o join(cols, ",") \o ")"

\* the statement without the blank that the empty clause leaves behind
dropTableSqlSingleBlank(tableName, ifExists) ==
    LET ifExistsClause == IF ifExists THEN "IF EXISTS " ELSE ""
    IN "DROP TABLE " \o ifExistsClause \o tableName

dropTableSql(tableName, ifExists) ==
    LET ifExistsClause == IF ifExists THEN "IF EXISTS" ELSE ""
    IN "DROP TABLE " \o ifExistsClause \o " " \o tableName

\* An async method that does `return await this.run(sql)`: its own promise,
\* the call of run with no parameters, and the suspension on run's promise.
Shortcut(kind, flag, sql) ==
    /\ CanCall
    /\ LET i == Len(promises) + 1
           P1 == Append(promises, [NewPromise(kind, 0) EXCEPT !.awaits = i + 1,
                                                              !.flag = flag])
           r == Query("run", P1, ops, sql, <<>>, i)
       IN promises' = r.P /\ ops' = r.O
    /\ UNCHANGED <<_db, conns>>

createTable(tableName, ifNotExists, cols) ==
    Shortcut("createTable", {ifNotExists}, createTableSql(tableName, ifNotExists, cols))

\* An optional boolean argument: {} when the caller leaves it out, {b} when
\* the caller passes b.
OptionalBooleans == {{}, {TRUE}, {FALSE}}

\* ifExists: boolean = false
dropTable(tableName, ifExistsArg) ==
    LET ifExists == IF ifExistsArg = {} THEN FALSE ELSE TRUE \in ifExistsArg
    IN Shortcut("dropTable", ifExistsArg, dropTableSql(tableName, ifExists))

\* The async method resumes once the awaited promise has settled and settles
\* its own promise the same way.
AwaitResume(i) ==
    /\ promises[i].awaits # 0
    /\ promises[i].state = "pending"
    /\ LET a == promises[promises[i].awaits]
       IN /\ a.state # "pending"
          /\ promises' = IF a.state = "resolved"
                         THEN resolve(promises, i, a.value)
                         ELSE reject(promises, i, a.value)
    /\ UNCHANGED <<_db, conns, ops>>

TableNames == {"t"}

ColLists == {<<"id INTEGER">>}

\* ---- specification ------------------------------------------------------
Init ==
    /\ _db = 0
    /\ conns = <<>>
    /\ promises = <<>>
    /\ ops = <<>>

Next ==
    \/ Open
    \/ \E o \in 1..Len(ops), err \in BOOLEAN : OpenCallback(o, err)
    \/ Close
    \/ \E o \in 1..Len(ops), err \in BOOLEAN : CloseCallback(o, err)
    \/ \E sql \in SqlTexts, params \in FewParamLists : Run(sql, params)
    \/ \E o \in 1..Len(ops), err \in BOOLEAN : RunCallback(o, err)
    \/ \E sql \in SqlTexts, params \in FewParamLists : Get(sql, params)
    \/ \E o \in 1..Len(ops), err \in BOOLEAN, found \in BOOLEAN : GetCallback(o, err, found)
    \/ \E sql \in SqlTexts, params \in FewParamLists : All(sql, params)
    \/ \E o \in 1..Len(ops), err \in BOOLEAN, n \in 0..MaxRows : AllCallback(o, err, n)
    \/ \E sql \in SqlTexts, params \in {Arr(<<>>)}, cbFn \in BOOLEAN : Each(sql, params, cbFn)
    \/ \E o \in 1..Len(ops), err \in BOOLEAN, throws \in BOOLEAN :
           EachRowCallback(o, err, throws)
    \/ \E o \in 1..Len(ops), err \in BOOLEAN :
           \E count \in {0, Len(ops[o].events)} : EachCompleteCallback(o, err, count)
    \/ \E sql \in SqlTexts : Exec(sql)
    \/ \E o \in 1..Len(ops), err \in BOOLEAN : ExecCallback(o, err)
    \/ \E tableName \in TableNames, ifNotExists \in BOOLEAN, cols \in ColLists :
           createTable(tableName, ifNotExists, cols)
    \/ \E tableName \in TableNames, ifExistsArg \in OptionalBooleans :
           dropTable(tableName, ifExistsArg)
    \/ \E i \in 1..Len(promises) : AwaitResume(i)

Spec == Init /\ [][Next]_vars

\* The engine invokes the completion callback of operation o.
EngineCompletes(o) ==
    /\ o \in 1..Len(ops)
    /\ \E err \in BOOLEAN :
           \/ OpenCallback(o, err)
           \/ CloseCallback(o, err)
           \/ RunCallback(o, err)
           \/ \E found \in BOOLEAN : GetCallback(o, err, found)
           \/ \E n \in 0..MaxRows : AllCallback(o, err, n)
           \/ \E count \in {0, Len(ops[o].events)} : EachCompleteCallback(o, err, count)
           \/ ExecCallback(o, err)

\* The async method that owns promise i resumes.
Resumes(i) ==
    /\ i \in 1..Len(promises)
    /\ AwaitResume(i)

\* a call makes at most one engine operation and at most two promises
MaxOps == MaxCalls

MaxPromises == 2 * MaxCalls

\* The engine eventually invokes the completion callback of every operation
\* submitted to it, and the job queue eventually resumes every async method
\* whose awaited promise has settled.
Fairness ==
    /\ \A o \in 1..MaxOps : WF_vars(EngineCompletes(o))
    /\ \A i \in 1..MaxPromises : WF_vars(Resumes(i))

\* Every method and every callback, with one input per method except where
\* the input decides whether the promise settles (the handler of each, the
\* error of a callback).
NextFair ==
    \/ Open
    \/ \E o \in 1..Len(ops), err \in BOOLEAN : OpenCallback(o, err)
    \/ Close
    \/ \E o \in 1..Len(ops), err \in BOOLEAN : CloseCallback(o, err)
    \/ Run("SELECT 1", <<>>)
    \/ \E o \in 1..Len(ops), err \in BOOLEAN : RunCallback(o, err)
    \/ Get("SELECT 1", <<>>)
    \/ \E o \in 1..Len(ops), err \in BOOLEAN : GetCallback(o, err, ~err)
    \/ All("SELECT 1", <<>>)
    \/ \E o \in 1..Len(ops), err \in BOOLEAN : AllCallback(o, err, 0)
    \/ \E cbFn \in BOOLEAN : Each("SELECT 1", Arr(<<>>), cbFn)
    \/ \E o \in 1..Len(ops), err \in BOOLEAN : EachRowCallback(o, err, FALSE)
    \/ \E o \in 1..Len(ops), err \in BOOLEAN :
           EachCompleteCallback(o, err, IF err THEN 0 ELSE Len(ops[o].events))
    \/ Exec("SELECT 1")
    \/ \E o \in 1..Len(ops), err \in BOOLEAN : ExecCallback(o, err)
    \/ createTable("t", TRUE, <<"id INTEGER">>)
    \/ dropTable("t", {})
    \/ \E i \in 1..Len(promises) : AwaitResume(i)

SpecFair == Init /\ [][NextFair]_vars /\ Fairness

\* Parameter binding: open, and run/get/all with every parameter list.
NextBind ==
    \/ Open
    \/ \E o \in 1..Len(ops), err \in BOOLEAN : OpenCallback(o, err)
    \/ \E sql \in SqlTexts, params \in ParamLists : Run(sql, params)
    \/ \E o \in 1..Len(ops), err \in BOOLEAN : RunCallback(o, err)
    \/ \E sql \in SqlTexts, params \in ParamLists : Get(sql, params)
    \/ \E o \in 1..Len(ops), err \in BOOLEAN, found \in BOOLEAN : GetCallback(o, err, found)
    \/ \E sql \in SqlTexts, params \in ParamLists : All(sql, params)
    \/ \E o \in 1..Len(ops), err \in BOOLEAN, n \in 0..MaxRows : AllCallback(o, err, n)

SpecBind == Init /\ [][NextBind]_vars


\* ---- properties ---------------------------------------------------------
Promises == 1..Len(promises)

Ops == 1..Len(ops)

Settled(i) == promises[i].state # "pending"

RejectedWith(i, e) == promises[i].state = "rejected" /\ promises[i].value = e

ResolvedWith(i, v) == promises[i].state = "resolved" /\ promises[i].value = v

\* C1: a promise is never both resolved and rejected, and once it has an
\* outcome (resolved value or rejection error) no later call or engine
\* callback changes that outcome.
C1_SettlesOnce ==
    [][\A i \in Promises :
          Settled(i) => /\ promises'[i].state = promises[i].state
                        /\ promises'[i].value = promises[i].value]_vars

\* an each rejected by its row handler, whose later per-row callback and
\* count-carrying completion callback have run
C1_Witness ==
    \E o \in Ops :
        /\ ops[o].kind = "each"
        /\ ops[o].done
        /\ Len(ops[o].events) >= 2
        /\ ops[o].events[1] = "throw"
        /\ ops[o].result.t = "count"
        /\ promises[ops[o].promise].state = "rejected"

GuardedKinds == {"close", "run", "get", "all", "each", "exec", "createTable", "dropTable"}

\* the settlement of a call that is rejected with error e: at once, or for
\* an async shortcut as soon as it resumes from the run call it awaits
RejectsWith(i, e) ==
    IF promises[i].awaits = 0
    THEN RejectedWith(i, e)
    ELSE /\ RejectedWith(promises[i].awaits, e)
         /\ (Settled(i) => RejectedWith(i, e))

\* C2 as stated: every operation except open, called before any successful
\* open, rejects with the 'database not opened' error.
C2_Original ==
    \A i \in Promises :
        (promises[i].kind \in GuardedKinds /\ ~promises[i].opened)
            => RejectsWith(i, error_dbNotOpened)

\* C2 (amended): run, get, all, exec, createTable, dropTable, and each with
\* a function as row handler, called on an instance on which open was never
\* called, reject with the 'database not opened' error.
C2_RejectsBeforeAnyOpen ==
    \A i \in Promises :
        (/\ promises[i].kind \in GuardedKinds \ {"close"}
         /\ promises[i].cbFn
         /\ promises[i].opensBefore = 0)
            => RejectsWith(i, error_dbNotOpened)

\* a createTable on a fresh instance that has resumed and rejected
C2_Witness ==
    \E i \in Promises :
        /\ promises[i].kind = "createTable"
        /\ promises[i].opensBefore = 0
        /\ RejectedWith(i, error_dbNotOpened)

\* C3: close on an instance on which open was never called resolves without
\* error, submits nothing to the engine and leaves this._db undefined, however
\* often it is repeated.
C3_CloseNeverOpened ==
    /\ Len(conns) = 0 => (_db = 0 /\ ops = <<>>)
    /\ \A i \in Promises :
           (promises[i].kind = "close" /\ promises[i].opensBefore = 0)
               => /\ ResolvedWith(i, Undefined)
                  /\ \A o \in Ops : ops[o].promise # i

\* two close calls in a row on a fresh instance
C3_Witness ==
    /\ Len(promises) = 2
    /\ \A i \in Promises : promises[i].kind = "close" /\ ResolvedWith(i, Undefined)
    /\ _db = 0

\* C4: run, get and all pass the single supplied value itself when the
\* parameter list has length 1, and otherwise the list of all supplied values
\* in the order supplied.
C4_ParamNormalization ==
    \A o \in Ops :
        ops[o].kind \in {"run", "get", "all"} =>
            LET a == ops[o].args
                n == Len(a)
                received == ops[o].param
            IN /\ n = 1 => received = a[1]
               /\ n # 1 => /\ received.tag = "arr"
                           /\ Len(received.items) = n
                           /\ \A k \in 1..n : received.items[k] = a[k]

\* the engine has received, unwrapped, a single value that is itself an array
C4_Witness ==
    \E o \in Ops :
        /\ ops[o].kind \in {"run", "get", "all"}
        /\ Len(ops[o].args) = 1
        /\ ops[o].args[1].tag = "arr"
        /\ ops[o].param = ops[o].args[1]

\* C5: each with a function handler that never raises: when the engine has
\* delivered N rows without per-row error and completed with count N, the
\* handler was invoked exactly once per row, in delivery order, and the
\* promise is resolved with N.
C5_EachCountsRows ==
    \A o \in Ops :
        (/\ ops[o].kind = "each"
         /\ ops[o].cbFn
         /\ ops[o].done
         /\ \A k \in 1..Len(ops[o].events) : ops[o].events[k] = "ok"
         /\ ops[o].result = Count(Len(ops[o].events)))
            => /\ ops[o].invoked = [k \in 1..Len(ops[o].events) |-> k]
               /\ ResolvedWith(ops[o].promise, Count(Len(ops[o].events)))

\* an each that visited MaxRows rows and resolved with that count
C5_Witness ==
    \E o \in Ops :
        /\ ops[o].kind = "each"
        /\ ops[o].cbFn
        /\ ops[o].done
        /\ Len(ops[o].events) >= 2
        /\ \A k \in 1..Len(ops[o].events) : ops[o].events[k] = "ok"
        /\ Len(ops[o].invoked) = Len(ops[o].events)
        /\ ResolvedWith(ops[o].promise, Count(Len(ops[o].events)))

\* the first per-row callback of operation o in which the handler raised
FirstThrow(o) ==
    CHOOSE k \in 1..Len(ops[o].events) :
        /\ ops[o].events[k] = "throw"
        /\ \A j \in 1..(k - 1) : ops[o].events[j] # "throw"

\* C6: each with a function handler: when the handler raises on its k-th
\* invocation, with no earlier raise and no earlier per-row engine error, the
\* promise is rejected with exactly that error, whatever per-row and
\* completion callbacks follow; it is never resolved with a count.
C6_EachHandlerThrow ==
    \A o \in Ops :
        (/\ ops[o].kind = "each"
         /\ ops[o].cbFn
         /\ \E k \in 1..Len(ops[o].events) : ops[o].events[k] = "throw"
         /\ \A j \in 1..(FirstThrow(o) - 1) : ops[o].events[j] = "ok")
            => RejectedWith(ops[o].promise, HandlerError(o, FirstThrow(o)))

\* the handler raised on its second invocation, and the engine then completed
\* with a row count
C6_Witness ==
    \E o \in Ops :
        /\ ops[o].kind = "each"
        /\ ops[o].cbFn
        /\ Len(ops[o].events) >= 2
        /\ ops[o].events[1] = "ok"
        /\ ops[o].events[2] = "throw"
        /\ ops[o].done
        /\ ops[o].result.t = "count"
        /\ RejectedWith(ops[o].promise, HandlerError(o, 2))

\* C7: each with a row handler that is not a function rejects with the
\* invocability error, with or without a connection.
C7_EachNotAFunction ==
    \A i \in Promises :
        (promises[i].kind = "each" /\ ~promises[i].cbFn)
            => RejectedWith(i, TypeError_cb)

\* both guards of each failed
C7_Witness ==
    \E i \in Promises :
        /\ promises[i].kind = "each"
        /\ ~promises[i].cbFn
        /\ promises[i].dbAtCall = 0
        /\ RejectedWith(i, TypeError_cb)

\* the connections the instance created that are opened and not yet closed
Live == {c \in 1..Len(conns) : conns[c] = "open"}

\* C8: the instance has at most one live (opened and not yet closed) engine
\* connection that it created.
C8_AtMostOneLive == Cardinality(Live) <= 1

\* C9: open on an instance that holds a connection makes this._db the newly
\* constructed connection, submits no close to the engine, and leaves the
\* state of the previous connection as it was.
C9_OpenReplaces ==
    [][(Len(conns') = Len(conns) + 1 /\ _db # 0)
          => /\ _db' = Len(conns')
             /\ _db' # _db
             /\ conns'[_db] = conns[_db]
             /\ Len(ops') = Len(ops) + 1
             /\ ops'[Len(ops')].kind = "open"
             /\ \A o \in Ops : ops'[o] = ops[o]]_vars

\* a second open on an open connection: the first connection is still open,
\* unreachable through the instance, and no close was ever submitted
C9_Witness ==
    /\ Len(conns) = 2
    /\ _db = 2
    /\ conns[1] = "open"
    /\ conns[2] = "open"
    /\ \A o \in Ops : ops[o].kind = "open"

\* C10: this._db is the connection constructed by the latest open as soon as
\* open is called and whatever its outcome: a failed open rejects with the
\* engine's error, and later run/get/all/each/exec calls pass the connection
\* guard and are submitted to the engine on that connection.
C10_OpenKeepsFailedConnection ==
    /\ _db = Len(conns)
    /\ \A o \in Ops :
           (ops[o].kind = "open" /\ conns[ops[o].conn] = "failed")
               => RejectedWith(ops[o].promise, EngineError(o, 0))
    /\ \A i \in Promises :
           (/\ promises[i].kind \in {"run", "get", "all", "each", "exec"}
            /\ promises[i].opensBefore > 0)
               => /\ ~RejectedWith(i, error_dbNotOpened)
                  /\ \E o \in Ops : /\ ops[o].promise = i
                                    /\ ops[o].kind = promises[i].kind
                                    /\ ops[o].conn = promises[i].opensBefore

\* a run called after the open failed, submitted on the failed connection
C10_Witness ==
    \E o \in Ops :
        /\ ops[o].kind = "run"
        /\ promises[ops[o].promise].connState = "failed"
        /\ ops[o].conn = _db
        /\ conns[_db] = "failed"


\* C11: this._db is changed only by open: close, run, get, all, each, exec,
\* createTable, dropTable and every engine callback leave it unchanged, so
\* after a close the reference still designates the closed connection.
C11_OnlyOpenChangesDb ==
    /\ [][_db' # _db => (Len(conns') = Len(conns) + 1 /\ _db' = Len(conns'))]_vars
    /\ [](\A o \in Ops :
             (/\ ops[o].kind = "close"
              /\ ops[o].done
              /\ ops[o].result = Undefined
              /\ ops[o].conn = Len(conns))
                 => (_db = ops[o].conn /\ conns[_db] = "closed"))

\* the engine has closed the connection and this._db still designates it
C11_Witness ==
    /\ _db # 0
    /\ conns[_db] = "closed"
    /\ \E o \in Ops : ops[o].kind = "close" /\ ops[o].done /\ ops[o].conn = _db


EngineKinds == {"open", "close", "run", "get", "all", "each", "exec"}

\* the calls that pass their guards: open always; close, run, get, all and
\* exec when this._db is set; each when moreover the handler is a function
PassesGuards(i) ==
    \/ promises[i].kind = "open"
    \/ promises[i].kind \in {"close", "run", "get", "all", "exec"} /\ promises[i].dbAtCall # 0
    \/ promises[i].kind = "each" /\ promises[i].cbFn /\ promises[i].dbAtCall # 0

\* the connection a call is made on: the one open constructs, or this._db
TargetConn(i) ==
    IF promises[i].kind = "open" THEN promises[i].opensBefore + 1 ELSE promises[i].dbAtCall

\* C12: every call that passes its guards has, from the moment it returns,
\* exactly one engine operation of its own kind on the connection current at
\* the call, and the engine operations are in the order of the calls.
C12_Passthrough ==
    /\ \A i \in Promises :
           PassesGuards(i) => Cardinality({o \in Ops : ops[o].promise = i}) = 1
    /\ \A o \in Ops :
           /\ ops[o].promise \in Promises
           /\ ops[o].kind = promises[ops[o].promise].kind
           /\ ops[o].conn = TargetConn(ops[o].promise)
    /\ \A o1, o2 \in Ops : o1 < o2 => ops[o1].promise < ops[o2].promise

\* open, then dropTable: the engine has the open and then the run that
\* dropTable made, each on the connection of the open
C12_Witness ==
    /\ Len(ops) = 2
    /\ ops[1].kind = "open"
    /\ ops[2].kind = "run"
    /\ promises[ops[2].promise].via # 0
    /\ ops[2].conn = ops[1].conn

\* C13: for open, close, run, get, all and exec, the completion callback
\* settles the promise of its own call and no other: it rejects with exactly
\* the engine's error, or resolves with exactly the value the engine supplied
\* (run: the context of that callback); until then the promise is pending.
C13_CallbackVerbatim ==
    \A o \in Ops :
        ops[o].kind \in {"open", "close", "run", "get", "all", "exec"} =>
            LET i == ops[o].promise
            IN /\ ~ops[o].done => ~Settled(i)
               /\ (ops[o].done /\ ops[o].result = EngineError(o, 0))
                      => RejectedWith(i, EngineError(o, 0))
               /\ (ops[o].done /\ ops[o].result # EngineError(o, 0))
                      => /\ ResolvedWith(i, ops[o].result)
                         /\ ops[o].kind \in {"open", "close", "exec"} => ops[o].result = Undefined
                         /\ ops[o].kind = "run" => ops[o].result = RunResult(o)
                         /\ ops[o].kind = "get" => ops[o].result \in {Undefined, Row(o, 1)}
                         /\ ops[o].kind = "all" => ops[o].result \in {Rows(o, n) : n \in 0..MaxRows}

\* a get rejected with the error of its own callback
C13_Witness ==
    \E o \in Ops :
        /\ ops[o].kind = "get"
        /\ ops[o].done
        /\ RejectedWith(ops[o].promise, EngineError(o, 0))


\* the run calls made by shortcut i
RunCallsOf(i) == {j \in Promises : promises[j].via = i}

\* shortcut i made exactly one call of run, without bind parameters, and its
\* own promise settles as the promise of that call does
DelegatesToRun(i) ==
    LET j == promises[i].awaits
    IN /\ RunCallsOf(i) = {j}
       /\ promises[j].kind = "run"
       /\ \A o \in Ops : ops[o].promise = j =>
              (ops[o].kind = "run" /\ ops[o].args = <<>> /\ ops[o].param = Arr(<<>>))
       /\ Settled(i) => (/\ promises[i].state = promises[j].state
                         /\ promises[i].value = promises[j].value)

\* the statement text of the run call made by shortcut i is text
Statement(i, text) ==
    \A o \in Ops : ops[o].promise = promises[i].awaits => ops[o].sql = text

\* C14: createTable calls run exactly once, with no bind parameters;
\* createTable("t", true, "id INTEGER") gives the statement
\* CREATE TABLE IF NOT EXISTS t (id INTEGER), and with false the same text
\* with the clause left out (its two surrounding blanks remain); the promise
\* settles as that run call settles.
C14_CreateTable ==
    \A i \in Promises :
        promises[i].kind = "createTable" =>
            /\ DelegatesToRun(i)
            /\ promises[i].flag = {TRUE}
                   => Statement(i, "CREATE TABLE IF NOT EXISTS t (id INTEGER)")
            /\ promises[i].flag = {FALSE}
                   => Statement(i, "CREATE TABLE  t (id INTEGER)")

\* createTable("t", false, "id INTEGER") on an open connection, resolved with
\* the result of its run call
C14_Witness ==
    \E i \in Promises :
        /\ promises[i].kind = "createTable"
        /\ promises[i].flag = {FALSE}
        /\ \E o \in Ops : /\ ops[o].promise = promises[i].awaits
                          /\ ops[o].sql = "CREATE TABLE  t (id INTEGER)"
                          /\ ResolvedWith(i, RunResult(o))

\* C15: dropTable calls run exactly once, with no bind parameters; ifExists
\* defaults to false; dropTable("t") gives 'DROP TABLE  t' (two blanks) and
\* dropTable("t", true) gives 'DROP TABLE IF EXISTS t'.
C15_DropTable ==
    \A i \in Promises :
        promises[i].kind = "dropTable" =>
            /\ DelegatesToRun(i)
            /\ promises[i].flag = {TRUE} => Statement(i, "DROP TABLE IF EXISTS t")
            /\ promises[i].flag \in {{}, {FALSE}} => Statement(i, "DROP TABLE  t")

\* dropTable("t") without the second argument, submitted to the engine
C15_Witness ==
    \E i \in Promises :
        /\ promises[i].kind = "dropTable"
        /\ promises[i].flag = {}
        /\ \E o \in Ops : /\ ops[o].promise = promises[i].awaits
                          /\ ops[o].sql = "DROP TABLE  t"


\* C16: a call rejected by a local guard submits nothing to the engine: when
\* run, get, all, each or exec is rejected with the 'not opened' error, and
\* when each is rejected with the invocability error, no engine operation
\* (and so no per-row or completion callback) exists for that call.
C16_GuardRejectSubmitsNothing ==
    \A i \in Promises :
        (/\ promises[i].kind \in {"run", "get", "all", "each", "exec"}
         /\ \/ RejectedWith(i, error_dbNotOpened)
            \/ RejectedWith(i, TypeError_cb))
            => \A o \in Ops : ops[o].promise # i


\* the calls that a local guard settles: run, get, all, each, exec and close
\* without a connection, and each with a handler that is not a function
SettledByGuard(i) ==
    \/ promises[i].kind \in {"close", "run", "get", "all", "each", "exec"} /\ promises[i].dbAtCall = 0
    \/ promises[i].kind = "each" /\ ~promises[i].cbFn

\* C17: every promise returned by a public operation eventually settles, given
\* that the engine eventually invokes the completion callback of every
\* operation submitted to it; a guard failure settles the promise during the
\* call, and a delegated each is settled no later than the engine's
\* completion callback, also when no row was delivered.
C17_EventuallySettles ==
    /\ [](\A i \in Promises : SettledByGuard(i) => Settled(i))
    /\ [](\A o \in Ops : (ops[o].kind = "each" /\ ops[o].done) => Settled(ops[o].promise))
    /\ \A i \in 1..MaxPromises :
           (i \in Promises) ~> (i \in Promises /\ Settled(i))

\* a delegated each that completed without a single row, and is settled
C17_Witness ==
    \E o \in Ops :
        /\ ops[o].kind = "each"
        /\ ops[o].cbFn
        /\ ops[o].done
        /\ ops[o].events = <<>>
        /\ Settled(ops[o].promise)


\* promise i was settled by a callback of the engine operation of its call
SettledByEngine(i) ==
    \E o \in Ops : /\ ops[o].promise = i
                   /\ (ops[o].done \/ ops[o].events # <<>>)

\* the calls made after some call of open never reject with the 'not
\* opened' error, close among them is submitted to the engine, and the calls
\* in the set direct settle only from a callback of the engine (a shortcut:
\* only once its run call has settled)
AfterOpenDelegated(direct) ==
    \A i \in Promises :
        promises[i].opensBefore > 0 =>
            /\ promises[i].kind # "open" => ~RejectedWith(i, error_dbNotOpened)
            /\ promises[i].kind = "close"
                   => \E o \in Ops : /\ ops[o].promise = i
                                     /\ ops[o].kind = "close"
                                     /\ ops[o].conn = promises[i].dbAtCall
            /\ (i \in direct /\ Settled(i)) => SettledByEngine(i)
            /\ (promises[i].awaits # 0 /\ Settled(i)) => Settled(promises[i].awaits)

C19_HandlerPerRow ==
    \A o \in Ops :
        ops[o].kind = "each" =>
            /\ \A k \in 1..Len(ops[o].events) : ops[o].events[k] \in {"err", "ok", "throw"}
            /\ ops[o].cbFn =>
                   /\ \A j \in 1..Len(ops[o].invoked) :
                          /\ ops[o].invoked[j] \in 1..Len(ops[o].events)
                          /\ ops[o].events[ops[o].invoked[j]] # "err"
                          /\ \A j2 \in 1..(j - 1) : ops[o].invoked[j2] < ops[o].invoked[j]
                   /\ \A k \in 1..Len(ops[o].events) :
                          ops[o].events[k] # "err"
                              => \E j \in 1..Len(ops[o].invoked) : ops[o].invoked[j] = k

\* the handler raised on the first row, the promise was rejected, and the
\* handler was still invoked with the second row
C19_Witness ==
    \E o \in Ops :
        /\ ops[o].kind = "each"
        /\ ops[o].cbFn
        /\ Len(ops[o].events) >= 2
        /\ ops[o].events[1] = "throw"
        /\ ops[o].events[2] = "ok"
        /\ ops[o].invoked[1] = 1
        /\ ops[o].invoked[2] = 2
        /\ RejectedWith(ops[o].promise, HandlerError(o, 1))

====
